---- MODULE Spec2Model ----
(***************************************************************************)
(* A model of top150_224_basic_calculator/main.py: the Tokenizer, the      *)
(* OutputStack and Solution.calculate (shunting-yard with eager            *)
(* reduction).                                                             *)
(*                                                                         *)
(* A text is a sequence of one-character strings.  A number is kept as the *)
(* exact rational <<"q", n, d>> (d > 0, lowest terms); a result that is    *)
(* not a rational of bounded size (a fractional power, a magnitude beyond  *)
(* ValueCap) is kept as the unevaluated term <<"t", calc, left, right>>.   *)
(* Python's floats are therefore modelled without rounding.                *)
(***************************************************************************)
EXTENDS Integers, Sequences, FiniteSets, TLC

VARIABLES
    expr,            \* Tokenizer.__expr: the text handed to calculate
    iter_index,      \* Tokenizer.__iter_index (0-based cursor)
    number_str,      \* Tokenizer.__number_str (running digit buffer)
    prev_token,      \* Tokenizer.__prev_token: <<>> is None, else <<token>>
    token,           \* the loop variable of calculate: <<>> or <<token>>
    stack,           \* OutputStack.__stack (operand stack), top is the tail
    operator_stack,  \* calculate's operator_stack, top is the tail
    pc,              \* position inside calculate
    outcome,         \* how the call ended: NoOutcome, a return or a raise
    pending,         \* texts still to be evaluated by later calls
    history,         \* outcomes of the calls already finished
    emitted,         \* what the __next__ calls of the current pass gave, in order
    passes           \* the same, for the earlier passes over this Tokenizer

vars == <<expr, iter_index, number_str, prev_token, token, stack,
          operator_stack, pc, outcome, pending, history, emitted, passes>>

(***************************************************************************)
(* Bounds of the model.                                                    *)
(***************************************************************************)
\* longest text of the exhaustive input set
MaxLen == 3
\* most binary operators in a generated operator chain
MaxOps == 2
\* largest numerator or denominator kept as an evaluated rational
ValueCap == 10000

(***************************************************************************)
(* Characters.  U+00BD stands for the character VULGAR FRACTION ONE HALF:  *)
(* str.isnumeric() accepts it and int(, 10) rejects it.                    *)
(***************************************************************************)
DecimalDigits == {"0", "1", "2", "3", "4", "5", "6", "7", "8", "9"}

AsciiWhitespace == {" ", "\t"}

DigitValue(c) ==
    CASE c = "0" -> 0 [] c = "1" -> 1 [] c = "2" -> 2 [] c = "3" -> 3
      [] c = "4" -> 4 [] c = "5" -> 5 [] c = "6" -> 6 [] c = "7" -> 7
      [] c = "8" -> 8 [] c = "9" -> 9

\* str.isnumeric() on one character
IsNumeric(c) == c \in DecimalDigits \cup {"U+00BD"}

(***************************************************************************)
(* The operator table (class attributes of Tokenizer).  An Operator is a   *)
(* namedtuple compared field by field; calc names the lambda, so two       *)
(* operators are equal exactly when the Python tuples are.                 *)
(***************************************************************************)
Operator(symbol, left_assoc, precedence, calc) ==
    [symbol |-> symbol, left_assoc |-> left_assoc,
     precedence |-> precedence, calc |-> calc]

Token(token_type, value) == [token_type |-> token_type, value |-> value]

OP_PLUS == Operator("+", TRUE, 1, "add")
OP_MINUS == Operator("-", TRUE, 1, "sub")
OP_TIMES == Operator("*", TRUE, 2, "mul")
OP_DIVIDE == Operator("/", TRUE, 2, "truediv")
OP_EXPONENTIATION == Operator("^", FALSE, 3, "pow")
OP_UNARY_MINUS == Operator("-", TRUE, 4, "neg")
OP_LPAREN == Operator("(", FALSE, 0, "None")
OP_RPAREN == Operator(")", FALSE, 0, "None")
NUMBER == Operator("1", FALSE, 0, "None")

ARITHMETIC_OPERATORS ==
    <<OP_PLUS, OP_MINUS, OP_TIMES, OP_DIVIDE, OP_EXPONENTIATION>>

\* the first operator of ARITHMETIC_OPERATORS whose symbol is c (the for loop
\* of __next__), as a sequence of length 0 or 1
MatchArithmetic(c) ==
    LET hits == {i \in 1..Len(ARITHMETIC_OPERATORS) :
                     ARITHMETIC_OPERATORS[i].symbol = c}
    IN  IF hits = {} THEN <<>>
        ELSE <<ARITHMETIC_OPERATORS[CHOOSE i \in hits : \A j \in hits : i <= j]>>

(***************************************************************************)
(* Outcomes of a call.                                                     *)
(***************************************************************************)
NoOutcome == [kind |-> "none", exc |-> "", args |-> <<>>, site |-> ""]

Return(v) == [kind |-> "return", exc |-> "", args |-> <<v>>, site |-> "calculate"]

Raise(exc, args, site) == [kind |-> "raise", exc |-> exc, args |-> args, site |-> site]

MISMATCHED == "mismatched parentheses"

(***************************************************************************)
(* Tokenizer.__next__: one whole call, from the state (i, ns, prev).       *)
(* The result says how the call ended (a token, a raise, StopIteration)    *)
(* and the tokenizer's fields as the call leaves them.                     *)
(***************************************************************************)
Scanned(how, i, ns, prev, tok, exc) ==
    [how |-> how, iter_index |-> i, number_str |-> ns, prev_token |-> prev,
     token |-> tok, exc |-> exc]

Emit(i, ns, tok) == Scanned("token", i, ns, <<tok>>, <<tok>>, NoOutcome)

\* the test of lines 76-79: '-' is unary unless it follows a NUMBER or a ')'
IsUnaryContextMutStartOnly(prev) == prev = <<>>
IsUnaryContextMutAlways(prev) == TRUE
IsUnaryContext(prev) ==
    prev = <<>> \/ prev[1].token_type \notin {NUMBER, OP_RPAREN}

\* the character a lex error carries: ValueError(c)
LexErrorArgsMutWithIndex(s, i) == <<s[i + 1], i>>
LexErrorArgs(s, i) == <<s[i + 1]>>

\* the characters the scan skips (line 70)
IsSkippedMutNothing(c) == FALSE
IsSkippedMutUnknown(c) == c \in {" ", "\t", "a"}
IsSkippedMutParen(c) == c \in {" ", "("}
IsSkipped(c) == c = " "

\* lines 103-109: the cursor is at the end of the text
AtEndMutKeepBuffer(i, ns, prev) ==
    IF ns # <<>>
    THEN Emit(i, ns, Token(NUMBER, ns))
    ELSE Scanned("stop", i, ns, prev, <<>>, NoOutcome)
AtEnd(i, ns, prev) ==
    IF ns # <<>>
    THEN Emit(i, <<>>, Token(NUMBER, ns))
    ELSE Scanned("stop", i, ns, prev, <<>>, NoOutcome)

\* Tokenizer.__iter__ (lines 40-44): the fields as it leaves them
TokenizerIterMutKeep(i, ns, prev) ==
    [iter_index |-> i, number_str |-> ns, prev_token |-> prev]
TokenizerIter(i, ns, prev) ==
    [iter_index |-> 0, number_str |-> <<>>, prev_token |-> <<>>]

RECURSIVE TokenizerNext(_, _, _, _)
TokenizerNext(s, i, ns, prev) ==
    IF i < Len(s)
    THEN LET c == s[i + 1] IN
         IF ~IsNumeric(c) /\ ns # <<>>
         THEN Emit(i, <<>>, Token(NUMBER, ns))
         ELSE IF IsNumeric(c)
         THEN TokenizerNext(s, i + 1, Append(ns, c), prev)
         ELSE IF IsSkipped(c)
         THEN TokenizerNext(s, i + 1, ns, prev)
         ELSE IF c = OP_UNARY_MINUS.symbol /\ IsUnaryContext(prev)
         THEN Emit(i + 1, ns, Token(OP_UNARY_MINUS, <<c>>))
         ELSE IF MatchArithmetic(c) # <<>>
         THEN Emit(i + 1, ns, Token(MatchArithmetic(c)[1], <<c>>))
         ELSE IF c = OP_LPAREN.symbol
         THEN Emit(i + 1, ns, Token(OP_LPAREN, <<c>>))
         ELSE IF c = OP_RPAREN.symbol
         THEN Emit(i + 1, ns, Token(OP_RPAREN, <<c>>))
         ELSE Scanned("raise", i, ns, prev, <<>>,
                      Raise("ValueError", LexErrorArgs(s, i), "__next__"))
    ELSE AtEnd(i, ns, prev)

(***************************************************************************)
(* Numbers.                                                                *)
(***************************************************************************)
Q(n) == <<"q", n, 1>>

Term(calc, left, right) == <<"t", calc, left, right>>

IsQ(v) == v[1] = "q"

Abs(n) == IF n < 0 THEN -n ELSE n

RECURSIVE Gcd(_, _)
Gcd(a, b) == IF b = 0 THEN a ELSE Gcd(b, a % b)

\* n/d (d # 0) in lowest terms with a positive denominator, or `otherwise`
\* when it is too large to keep evaluated
Rational(n, d, otherwise) ==
    LET g == Gcd(Abs(n), Abs(d))
        sn == IF d < 0 THEN -n ELSE n
        num == sn \div g
        den == Abs(d) \div g
    IN  IF Abs(num) <= ValueCap /\ den <= ValueCap
        THEN <<"q", num, den>>
        ELSE otherwise

\* base^e for a rational base and an integer e >= 0, by repeated
\* multiplication; <<>> when the power is too large to keep evaluated
RECURSIVE PowerAcc(_, _, _, _, _)
PowerAcc(an, ad, n, d, e) ==
    IF e = 0 THEN <<"q", an, ad>>
    ELSE IF Abs(an * n) > ValueCap \/ ad * d > ValueCap THEN <<>>
    ELSE PowerAcc(an * n, ad * d, n, d, e - 1)

Power(n, d, e) ==
    IF d = 1 /\ n = 0 THEN (IF e = 0 THEN Q(1) ELSE Q(0))
    ELSE IF d = 1 /\ n = 1 THEN Q(1)
    ELSE IF d = 1 /\ n = -1 THEN (IF e % 2 = 0 THEN Q(1) ELSE Q(-1))
    ELSE PowerAcc(1, 1, n, d, e)

\* what an operation gives instead of a number when Python raises inside it
\* (the exception's message is not modelled)
Failed(exc, args) == <<"e", exc, args>>

IsFailed(v) == v[1] = "e"

ZeroDivision == Failed("ZeroDivisionError", <<>>)

(***************************************************************************)
(* The calc lambdas of the operator table (lines 18-23), applied to left   *)
(* and right: a number, or the ZeroDivisionError Python raises.  An        *)
(* exception is raised by an operand only where a rational operand shows   *)
(* it; an unevaluated term is taken to be a non-zero number.               *)
(***************************************************************************)
CalcAdd(a, b) ==
    IF IsQ(a) /\ IsQ(b)
    THEN Rational(a[2] * b[3] + b[2] * a[3], a[3] * b[3], Term("add", a, b))
    ELSE Term("add", a, b)

CalcSub(a, b) ==
    IF IsQ(a) /\ IsQ(b)
    THEN Rational(a[2] * b[3] - b[2] * a[3], a[3] * b[3], Term("sub", a, b))
    ELSE Term("sub", a, b)

CalcMul(a, b) ==
    IF IsQ(a) /\ IsQ(b)
    THEN Rational(a[2] * b[2], a[3] * b[3], Term("mul", a, b))
    ELSE Term("mul", a, b)

CalcTrueDiv(a, b) ==
    IF IsQ(b) /\ b[2] = 0 THEN ZeroDivision
    ELSE IF IsQ(a) /\ IsQ(b)
    THEN Rational(a[2] * b[3], a[3] * b[2], Term("truediv", a, b))
    ELSE Term("truediv", a, b)

CalcPow(a, b) ==
    IF ~(IsQ(a) /\ IsQ(b)) THEN Term("pow", a, b)
    ELSE IF b[3] = 1 /\ b[2] >= 0
    THEN LET p == Power(a[2], a[3], b[2])
         IN  IF p = <<>> THEN Term("pow", a, b) ELSE p
    ELSE IF a[2] = 0 THEN (IF b[2] < 0 THEN ZeroDivision ELSE Q(0))
    ELSE IF b[3] = 1
    THEN LET p == IF a[2] < 0 THEN Power(-a[3], -a[2], -b[2])
                  ELSE Power(a[3], a[2], -b[2])
         IN  IF p = <<>> THEN Term("pow", a, b) ELSE Rational(p[2], p[3], p)
    ELSE IF a = Q(1) THEN Q(1)
    ELSE Term("pow", a, b)

\* OP_UNARY_MINUS.calc: lambda _, b: 0 - b
CalcNeg(a, b) == CalcSub(Q(0), b)

Calc(op, a, b) ==
    CASE op.calc = "add" -> CalcAdd(a, b)
      [] op.calc = "sub" -> CalcSub(a, b)
      [] op.calc = "mul" -> CalcMul(a, b)
      [] op.calc = "truediv" -> CalcTrueDiv(a, b)
      [] op.calc = "pow" -> CalcPow(a, b)
      [] op.calc = "neg" -> CalcNeg(a, b)
      [] OTHER -> Failed("TypeError", <<"'NoneType' object is not callable">>)

\* int(token.value, 10) of line 161: the digit run as a number, or the
\* ValueError of a numeric character that is no decimal digit
RECURSIVE DigitsValue(_, _)
DigitsValue(ns, acc) ==
    IF ns = <<>> THEN acc
    ELSE DigitsValue(Tail(ns), 10 * acc + DigitValue(Head(ns)))

ParseInt(ns) ==
    IF \E k \in 1..Len(ns) : ns[k] \notin DecimalDigits
    THEN Failed("ValueError", <<"invalid literal for int() with base 10", ns>>)
    ELSE IF Len(ns) > 4 THEN Term("int", ns, ns)
    ELSE Q(DigitsValue(ns, 0))

(***************************************************************************)
(* OutputStack.append (lines 122-142): the stack after the call, or the    *)
(* exception the call raises.                                              *)
(***************************************************************************)
Pop(stk) == SubSeq(stk, 1, Len(stk) - 1)

Top(stk) == stk[Len(stk)]

PopFromEmpty == Failed("IndexError", <<"pop from empty list">>)

\* the operands handed to calc for a binary operator: calc(left, right)
BinaryOperands(stk) == <<Top(Pop(stk)), Top(stk)>>

OutputAppendInt(stk, v) == Append(stk, v)

OutputAppendOperator(stk, v) ==
    IF v = OP_UNARY_MINUS
    THEN IF stk = <<>> THEN PopFromEmpty
         ELSE LET result == Calc(v, Q(0), Top(stk))
              IN  IF IsFailed(result) THEN result
                  ELSE Append(Pop(stk), result)
    ELSE IF Len(stk) < 2 THEN PopFromEmpty
    ELSE LET operands == BinaryOperands(stk)
             result == Calc(v, operands[1], operands[2])
         IN  IF IsFailed(result) THEN result
             ELSE Append(Pop(Pop(stk)), result)

\* a failed operation as the exception that ends the call
Raised(failure, site) == Raise(failure[2], failure[3], site)

(***************************************************************************)
(* The input texts.                                                        *)
(***************************************************************************)
Alphabet ==
    {"0", "1", "2", "+", "-", "*", "/", "^", "(", ")", " ", "\t", "a", "U+00BD"}

Texts(n) == UNION {[1..k -> Alphabet] : k \in 0..n}

BinarySymbols == {"+", "-", "*", "/", "^"}

ChainOperands == {<<"2">>, <<"3">>, <<"-", "2">>}

RECURSIVE Chains(_)
Chains(k) ==
    IF k = 0 THEN ChainOperands
    ELSE {c \o <<op>> \o x : c \in Chains(k - 1), op \in BinarySymbols,
                             x \in ChainOperands}

Grouped ==
    LET D == {"2", "3"} IN
    {<<"(", a, o1, b, ")", o2, c>> :
        a \in D, b \in D, c \in D, o1 \in BinarySymbols, o2 \in BinarySymbols}
    \cup
    {<<a, o1, "(", b, o2, c, ")">> :
        a \in D, b \in D, c \in D, o1 \in BinarySymbols, o2 \in BinarySymbols}

\* the texts of the __main__ assertions (lines 213-216) and of the examples
Scenarios ==
    { <<"1", " ", "+", " ", "1">>,
      <<" ", "2", "-", "1", " ", "+", " ", "2", " ">>,
      <<"(", "1", "+", "(", "4", "+", "5", "+", "2", ")", "-", "3", ")",
        "+", "(", "6", "+", "8", ")">>,
      <<"1", "-", "(", "-", "2", ")">>,
      <<"2", "-", "3", "-", "4">>,
      <<"2", "^", "3", "^", "2">>,
      <<"2", "+", "3", "*", "4">>,
      <<"3", "*", "-", "2">>,
      <<"(", "1", "+", "2">>,
      <<"1", "+", "2", ")">>,
      <<"1", "-", "-", "-", "2">>,
      <<"(", "-", "-", "2">>,
      <<"(", "0", "^", "-", "-", "1">>,
      <<"1", "2", " ", "+", " ", "3", "4">>,
      <<"1", "\t", "+", "1">>,
      <<"1", "+", "2", "*", "3", "^", "2", "-", "4">> }

Inputs == Texts(MaxLen) \cup UNION {Chains(k) : k \in 1..MaxOps}
              \cup Grouped \cup Scenarios

(***************************************************************************)
(* Solution.calculate, one step at a time.                                 *)
(***************************************************************************)
TypeOK ==
    /\ pc \in {"start", "next", "dispatch", "rparen", "drain", "done",
               "constructed", "iterating"}
    /\ iter_index \in 0..Len(expr)
    /\ Len(token) <= 1 /\ Len(prev_token) <= 1
    /\ outcome.kind \in {"none", "return", "raise"}

Init ==
    /\ expr \in Inputs
    /\ iter_index = 0
    /\ number_str = <<>>
    /\ prev_token = <<>>
    /\ token = <<>>
    /\ stack = <<>>
    /\ operator_stack = <<>>
    /\ pc = "start"
    /\ outcome = NoOutcome
    /\ pending = <<>>
    /\ history = <<>>
    /\ emitted = <<>>
    /\ passes = <<>>

tokenizerVars == <<iter_index, number_str, prev_token, emitted>>
callVars == <<expr, pending, history, passes>>

\* what one __next__ call gave its caller: a token, an exception or
\* StopIteration, and where it left the cursor
Yielded(r) == [how |-> r.how, token |-> r.token, exc |-> r.exc, at |-> r.iter_index]

\* ends the call with an exception
Fail(exception) ==
    /\ outcome' = exception
    /\ pc' = "done"

\* lines 155-159: the stacks, the Tokenizer and iter(tokenizer)
calculate_begin ==
    /\ pc = "start"
    /\ stack' = <<>>
    /\ operator_stack' = <<>>
    /\ LET it == TokenizerIter(iter_index, number_str, prev_token) IN
        /\ iter_index' = it.iter_index
        /\ number_str' = it.number_str
        /\ prev_token' = it.prev_token
    /\ emitted' = <<>>
    /\ pc' = "next"
    /\ UNCHANGED <<token, outcome, callVars>>

\* line 159: the for statement asks the tokenizer for the next token
for_next ==
    /\ pc = "next"
    /\ LET r == TokenizerNext(expr, iter_index, number_str, prev_token) IN
        /\ iter_index' = r.iter_index
        /\ number_str' = r.number_str
        /\ prev_token' = r.prev_token
        /\ emitted' = Append(emitted, Yielded(r))
        /\ IF r.how = "token"
           THEN token' = r.token /\ pc' = "dispatch" /\ UNCHANGED outcome
           ELSE IF r.how = "raise"
           THEN Fail(r.exc) /\ UNCHANGED token
           ELSE pc' = "drain" /\ UNCHANGED <<token, outcome>>
    /\ UNCHANGED <<stack, operator_stack, callVars>>

\* lines 160-162
push_number ==
    /\ pc = "dispatch"
    /\ token[1].token_type = NUMBER
    /\ LET v == ParseInt(token[1].value) IN
        IF IsFailed(v)
        THEN Fail(Raised(v, "int")) /\ UNCHANGED stack
        ELSE stack' = OutputAppendInt(stack, v) /\ pc' = "next" /\ UNCHANGED outcome
    /\ UNCHANGED <<token, operator_stack, tokenizerVars, callVars>>

IsOperatorToken(t) ==
    t \in {ARITHMETIC_OPERATORS[i] : i \in 1..Len(ARITHMETIC_OPERATORS)}
            \cup {OP_UNARY_MINUS}

\* the while condition of lines 169-175
ShouldReduceMutInverted(ops, t) ==
    /\ Len(ops) > 0
    /\ Top(ops) # OP_LPAREN
    /\ \/ Top(ops).precedence < t.precedence
       \/ /\ Top(ops).precedence = t.precedence
          /\ Top(ops).left_assoc
          /\ t.left_assoc
ShouldReduceMutNoAssoc(ops, t) ==
    /\ Len(ops) > 0
    /\ Top(ops) # OP_LPAREN
    /\ Top(ops).precedence >= t.precedence
ShouldReduceMutNever(ops, t) == FALSE
ShouldReduceMutStrict(ops, t) ==
    /\ Len(ops) > 0
    /\ Top(ops) # OP_LPAREN
    /\ Top(ops).precedence > t.precedence
ShouldReduce(ops, t) ==
    /\ Len(ops) > 0
    /\ Top(ops) # OP_LPAREN
    /\ \/ Top(ops).precedence > t.precedence
       \/ /\ Top(ops).precedence = t.precedence
          /\ Top(ops).left_assoc
          /\ t.left_assoc

\* output_stack.append(operator_stack.pop()) of lines 176, 193 and 207
ReduceMutNoPop ==
    LET r == OutputAppendOperator(stack, Top(operator_stack)) IN
    /\ UNCHANGED operator_stack
    /\ IF IsFailed(r)
       THEN Fail(Raised(r, "append")) /\ UNCHANGED stack
       ELSE stack' = r /\ UNCHANGED <<pc, outcome>>
Reduce ==
    LET r == OutputAppendOperator(stack, Top(operator_stack)) IN
    /\ operator_stack' = Pop(operator_stack)
    /\ IF IsFailed(r)
       THEN Fail(Raised(r, "append")) /\ UNCHANGED stack
       ELSE stack' = r /\ UNCHANGED <<pc, outcome>>

\* one turn of the while loop of lines 169-176
operator_reduce ==
    /\ pc = "dispatch"
    /\ IsOperatorToken(token[1].token_type)
    /\ ShouldReduce(operator_stack, token[1].token_type)
    /\ Reduce
    /\ UNCHANGED <<token, tokenizerVars, callVars>>

\* lines 178-179, once the while loop has ended
operator_push ==
    /\ pc = "dispatch"
    /\ IsOperatorToken(token[1].token_type)
    /\ ~ShouldReduce(operator_stack, token[1].token_type)
    /\ operator_stack' = Append(operator_stack, token[1].token_type)
    /\ pc' = "next"
    /\ UNCHANGED <<token, stack, outcome, tokenizerVars, callVars>>

\* lines 181-183
push_lparen ==
    /\ pc = "dispatch"
    /\ token[1].token_type = OP_LPAREN
    /\ operator_stack' = Append(operator_stack, OP_LPAREN)
    /\ pc' = "next"
    /\ UNCHANGED <<token, stack, outcome, tokenizerVars, callVars>>

\* lines 185-187
rparen_enter ==
    /\ pc = "dispatch"
    /\ token[1].token_type = OP_RPAREN
    /\ IF Len(operator_stack) = 0
       THEN Fail(Raise("ValueError", <<MISMATCHED>>, "calculate"))
       ELSE pc' = "rparen" /\ UNCHANGED outcome
    /\ UNCHANGED <<token, stack, operator_stack, tokenizerVars, callVars>>

\* lines 192-199: one evaluation of operator_stack[-1] != OP_LPAREN, and what
\* follows it
rparen_loopMutKeepsMarker ==
    /\ pc = "rparen"
    /\ IF Len(operator_stack) = 0
       THEN /\ Fail(Raise("IndexError", <<"list index out of range">>, "calculate"))
            /\ UNCHANGED <<stack, operator_stack>>
       ELSE IF Top(operator_stack) # OP_LPAREN
       THEN Reduce
       ELSE /\ pc' = "next"
            /\ UNCHANGED <<stack, operator_stack, outcome>>
    /\ UNCHANGED <<token, tokenizerVars, callVars>>
rparen_loop ==
    /\ pc = "rparen"
    /\ IF Len(operator_stack) = 0
       THEN /\ Fail(Raise("IndexError", <<"list index out of range">>, "calculate"))
            /\ UNCHANGED <<stack, operator_stack>>
       ELSE IF Top(operator_stack) # OP_LPAREN
       THEN Reduce
       ELSE /\ operator_stack' = Pop(operator_stack)
            /\ pc' = "next"
            /\ UNCHANGED <<stack, outcome>>
    /\ UNCHANGED <<token, tokenizerVars, callVars>>

\* what the drain of lines 203-207 does with a popped LPAREN marker
DrainRejects(op) == op = OP_LPAREN

\* lines 203-207: one turn of the final while loop
drain_step ==
    /\ pc = "drain"
    /\ Len(operator_stack) > 0
    /\ IF DrainRejects(Top(operator_stack))
       THEN /\ Fail(Raise("ValueError", <<MISMATCHED>>, "calculate"))
            /\ operator_stack' = Pop(operator_stack)
            /\ UNCHANGED stack
       ELSE Reduce
    /\ UNCHANGED <<token, tokenizerVars, callVars>>

\* line 209 and OutputStack.result (lines 144-146)
return_result ==
    /\ pc = "drain"
    /\ Len(operator_stack) = 0
    /\ IF stack = <<>>
       THEN Fail(Raise("IndexError", <<"list index out of range">>, "result"))
       ELSE outcome' = Return(Top(stack)) /\ pc' = "done"
    /\ UNCHANGED <<token, stack, operator_stack, tokenizerVars, callVars>>

Step ==
    \/ calculate_begin
    \/ for_next
    \/ push_number
    \/ operator_reduce
    \/ operator_push
    \/ push_lparen
    \/ rparen_enter
    \/ rparen_loop
    \/ drain_step
    \/ return_result

Next == Step

Spec == Init /\ [][Next]_vars

\* longest text of the exhaustive input set of the specification with
\* fairness
MaxLiveLen == 2

LiveInputs == Texts(MaxLiveLen) \cup UNION {Chains(k) : k \in 1..MaxOps}
                  \cup Grouped \cup Scenarios

InitLive == Init /\ expr \in LiveInputs

\* calculate is straight-line code run by one thread: a step that can be
\* taken is taken
SpecLive == InitLive /\ [][Next]_vars /\ WF_vars(Next)

(***************************************************************************)
(* Two calls in a row, as the __main__ block makes them (lines 213-216):   *)
(* each Solution().calculate(s) builds its own stacks and Tokenizer.  The  *)
(* second text is the first with one whitespace character put in.          *)
(***************************************************************************)
\* longest text of the exhaustive input set of the two-call specification
MaxPairLen == 2

Insert(s, p, w) == SubSeq(s, 1, p) \o <<w>> \o SubSeq(s, p + 1, Len(s))

PairTexts == Texts(MaxPairLen) \cup Chains(1) \cup Scenarios

InitCalls ==
    /\ expr \in PairTexts
    /\ \E p \in 0..Len(expr), w \in AsciiWhitespace : pending = <<Insert(expr, p, w)>>
    /\ iter_index = 0
    /\ number_str = <<>>
    /\ prev_token = <<>>
    /\ token = <<>>
    /\ stack = <<>>
    /\ operator_stack = <<>>
    /\ pc = "start"
    /\ outcome = NoOutcome
    /\ history = <<>>
    /\ emitted = <<>>
    /\ passes = <<>>

\* the next statement of the caller: another Solution().calculate(s)
next_call ==
    /\ pc = "done"
    /\ pending # <<>>
    /\ history' = Append(history, [text |-> expr, outcome |-> outcome])
    /\ expr' = Head(pending)
    /\ pending' = Tail(pending)
    /\ iter_index' = 0
    /\ number_str' = <<>>
    /\ prev_token' = <<>>
    /\ token' = <<>>
    /\ stack' = <<>>
    /\ operator_stack' = <<>>
    /\ outcome' = NoOutcome
    /\ emitted' = <<>>
    /\ pc' = "start"
    /\ UNCHANGED passes

NextCalls == Step \/ next_call

SpecCalls == InitCalls /\ [][NextCalls]_vars

(***************************************************************************)
(* A Tokenizer driven by hand: Tokenizer(expr), then iter() and next() in  *)
(* any order.  After __init__ (lines 30-31) only the text is set:          *)
(* __iter_index, __number_str and __prev_token exist once __iter__ has     *)
(* run, and pc = "constructed" says that they do not yet.                  *)
(***************************************************************************)
\* longest text of the exhaustive input set of the tokenizer specification
MaxTokenizerLen == 3
\* __next__ calls of one pass beyond one for each character of the text
MaxExtraCalls == 2

TokenizerAlphabet ==
    {"1", "2", "+", "-", "^", "(", ")", " ", "\t", "a", "U+00BD"}

TokenizerTexts ==
    UNION {[1..k -> TokenizerAlphabet] : k \in 0..MaxTokenizerLen} \cup Scenarios

InitTokenizer ==
    /\ expr \in TokenizerTexts
    /\ iter_index = 0
    /\ number_str = <<>>
    /\ prev_token = <<>>
    /\ token = <<>>
    /\ stack = <<>>
    /\ operator_stack = <<>>
    /\ pc = "constructed"
    /\ outcome = NoOutcome
    /\ pending = <<>>
    /\ history = <<>>
    /\ emitted = <<>>
    /\ passes = <<>>

unusedVars == <<expr, stack, operator_stack, outcome, pending, history>>

\* iter(tokenizer), lines 40-44: the first pass, or a second pass begun
\* while or after the first one ran
tokenizer_iter ==
    /\ pc \in {"constructed", "iterating"}
    /\ passes = <<>>
    /\ LET it == TokenizerIter(iter_index, number_str, prev_token) IN
        /\ iter_index' = it.iter_index
        /\ number_str' = it.number_str
        /\ prev_token' = it.prev_token
    /\ passes' = IF pc = "iterating" THEN Append(passes, emitted) ELSE passes
    /\ emitted' = <<>>
    /\ pc' = "iterating"
    /\ UNCHANGED <<token, unusedVars>>

\* next(tokenizer), lines 50-109
tokenizer_next ==
    /\ pc = "iterating"
    /\ Len(emitted) < Len(expr) + MaxExtraCalls
    /\ LET r == TokenizerNext(expr, iter_index, number_str, prev_token) IN
        /\ iter_index' = r.iter_index
        /\ number_str' = r.number_str
        /\ prev_token' = r.prev_token
        /\ token' = r.token
        /\ emitted' = Append(emitted, Yielded(r))
    /\ UNCHANGED <<pc, passes, unusedVars>>

\* next(tokenizer) before any iter(tokenizer): line 52 reads a field that
\* does not exist
tokenizer_next_unstarted ==
    /\ pc = "constructed"
    /\ emitted = <<>>
    /\ emitted' = <<[how |-> "raise", token |-> <<>>, at |-> 0,
                     exc |-> Raise("AttributeError", <<"_Tokenizer__iter_index">>,
                                   "__next__")]>>
    /\ UNCHANGED <<pc, passes, token, iter_index, number_str, prev_token, unusedVars>>

NextTokenizer ==
    \/ tokenizer_iter
    \/ tokenizer_next
    \/ tokenizer_next_unstarted

SpecTokenizer == InitTokenizer /\ [][NextTokenizer]_vars

(***************************************************************************)
(* The reference reading of a text, used to state the claims: a lexer      *)
(* (maximal digit runs, spaces dropped) and a recursive-descent evaluator  *)
(* of the grammar                                                          *)
(*     Expr    ::= Term   { ("+" | "-") Term }        left to right        *)
(*     Term    ::= Factor { ("*" | "/") Factor }      left to right        *)
(*     Primary ::= number | "(" Expr ")"                                   *)
(* with, when unary minus binds tighter than "^" (the operator table),     *)
(*     Factor  ::= Unary [ "^" Factor ]      Unary ::= "-" Unary | Primary *)
(* and, when "^" binds tighter than unary minus,                           *)
(*     Factor  ::= "-" Factor | Primary [ "^" Factor ]                     *)
(***************************************************************************)
ClaimSymbols == {"+", "-", "*", "/", "^", "(", ")"}

ClaimAlphabet == DecimalDigits \cup {" "} \cup ClaimSymbols

OverClaimAlphabet(s) == \A k \in 1..Len(s) : s[k] \in ClaimAlphabet

\* the last position of the digit run that starts at position i
RunEnd(s, i) ==
    CHOOSE j \in i..Len(s) :
        /\ \A k \in i..j : s[k] \in DecimalDigits
        /\ j = Len(s) \/ s[j + 1] \notin DecimalDigits

RECURSIVE RefLex(_, _, _)
RefLex(s, i, acc) ==
    IF i > Len(s) THEN acc
    ELSE IF s[i] \in DecimalDigits
    THEN RefLex(s, RunEnd(s, i) + 1, Append(acc, <<"num", SubSeq(s, i, RunEnd(s, i))>>))
    ELSE IF s[i] = " " THEN RefLex(s, i + 1, acc)
    ELSE RefLex(s, i + 1, Append(acc, <<"sym", <<s[i]>>>>))

RefTokens(s) == RefLex(s, 1, <<>>)

Parsed(ok, v, p) == [ok |-> ok, v |-> v, p |-> p]

NoParse == Parsed(FALSE, Q(0), 0)

IsSym(ts, p, c) == p <= Len(ts) /\ ts[p] = <<"sym", <<c>>>>

\* an operator applied in the reference: a failed operand fails the result
Ap(op, a, b) ==
    IF IsFailed(a) THEN a ELSE IF IsFailed(b) THEN b ELSE Calc(op, a, b)

BinaryOf(c) ==
    CASE c = "+" -> OP_PLUS [] c = "-" -> OP_MINUS [] c = "*" -> OP_TIMES
      [] c = "/" -> OP_DIVIDE [] c = "^" -> OP_EXPONENTIATION

RECURSIVE PExpr(_, _, _), PExprRest(_, _, _), PTerm(_, _, _),
          PTermRest(_, _, _), PFactor(_, _, _), PUnary(_, _, _),
          PPrimary(_, _, _)

PPrimary(ts, p, tight) ==
    IF p > Len(ts) THEN NoParse
    ELSE IF ts[p][1] = "num" THEN Parsed(TRUE, ParseInt(ts[p][2]), p + 1)
    ELSE IF IsSym(ts, p, "(")
    THEN LET e == PExpr(ts, p + 1, tight)
         IN  IF e.ok /\ IsSym(ts, e.p, ")") THEN Parsed(TRUE, e.v, e.p + 1)
             ELSE NoParse
    ELSE NoParse

\* "-" Unary | Primary   (only used when unary minus binds tightest)
PUnary(ts, p, tight) ==
    IF IsSym(ts, p, "-")
    THEN LET u == PUnary(ts, p + 1, tight)
         IN  IF u.ok THEN Parsed(TRUE, Ap(OP_UNARY_MINUS, Q(0), u.v), u.p)
             ELSE NoParse
    ELSE PPrimary(ts, p, tight)

PFactor(ts, p, tight) ==
    IF ~tight /\ IsSym(ts, p, "-")
    THEN LET u == PFactor(ts, p + 1, tight)
         IN  IF u.ok THEN Parsed(TRUE, Ap(OP_UNARY_MINUS, Q(0), u.v), u.p)
             ELSE NoParse
    ELSE LET b == IF tight THEN PUnary(ts, p, tight) ELSE PPrimary(ts, p, tight)
         IN  IF b.ok /\ IsSym(ts, b.p, "^")
             THEN LET e == PFactor(ts, b.p + 1, tight)
                  IN  IF e.ok
                      THEN Parsed(TRUE, Ap(OP_EXPONENTIATION, b.v, e.v), e.p)
                      ELSE NoParse
             ELSE b

PTermRest(ts, acc, tight) ==
    IF acc.ok /\ (IsSym(ts, acc.p, "*") \/ IsSym(ts, acc.p, "/"))
    THEN LET r == PFactor(ts, acc.p + 1, tight)
         IN  IF r.ok
             THEN PTermRest(ts, Parsed(TRUE, Ap(BinaryOf(ts[acc.p][2][1]), acc.v, r.v), r.p),
                            tight)
             ELSE NoParse
    ELSE acc

PTerm(ts, p, tight) == PTermRest(ts, PFactor(ts, p, tight), tight)

PExprRest(ts, acc, tight) ==
    IF acc.ok /\ (IsSym(ts, acc.p, "+") \/ IsSym(ts, acc.p, "-"))
    THEN LET r == PTerm(ts, acc.p + 1, tight)
         IN  IF r.ok
             THEN PExprRest(ts, Parsed(TRUE, Ap(BinaryOf(ts[acc.p][2][1]), acc.v, r.v), r.p),
                            tight)
             ELSE NoParse
    ELSE acc

PExpr(ts, p, tight) == PExprRest(ts, PTerm(ts, p, tight), tight)

\* the whole text read as one expression
RefParse(s, tight) ==
    LET ts == RefTokens(s)
        e == PExpr(ts, 1, tight)
    IN  IF e.ok /\ e.p = Len(ts) + 1 THEN e ELSE NoParse

WellFormed(s) == OverClaimAlphabet(s) /\ RefParse(s, TRUE).ok

\* what a call must end with when the text's value is v
Expected(v) ==
    IF IsFailed(v) THEN Raise(v[2], v[3], "append") ELSE Return(v)

RefOutcome(s, tight) == Expected(RefParse(s, tight).v)

Done == pc = "done"

(***************************************************************************)
(* C1.  For every well-formed expression (non-negative integer literals,   *)
(* binary + - * / ^, unary minus applied to any operand, also one that     *)
(* itself starts with a unary minus, balanced parentheses, optional        *)
(* spaces) calculate ends as the reference evaluator does: it returns the  *)
(* reference value (it raises only where the reference arithmetic itself   *)
(* divides by zero).  The reference ranks the operators as the operator    *)
(* table does.                                                             *)
(***************************************************************************)
C1_WellFormedMatchesReference ==
    (Done /\ WellFormed(expr)) => outcome = RefOutcome(expr, TRUE)

(***************************************************************************)
(* C3.  For every text over the alphabet digits, space, + - * / ^ ( ) that *)
(* is not a well-formed infix expression, calculate fails with an error    *)
(* and never returns a number.                                             *)
(***************************************************************************)
C3_MalformedRaises ==
    (Done /\ OverClaimAlphabet(expr) /\ ~WellFormed(expr)) => outcome.kind = "raise"

(***************************************************************************)
(* C6.  calculate returns a value only when, every token consumed and the  *)
(* operator stack drained, the operand stack holds exactly one value.      *)
(***************************************************************************)
C6_ReturnsOnlySingleValue ==
    (Done /\ outcome.kind = "return") =>
        /\ iter_index = Len(expr) /\ number_str = <<>>
        /\ operator_stack = <<>>
        /\ Len(stack) = 1

(***************************************************************************)
(* C2.  Precedence.  The operators of a text, in order, with the class of  *)
(* each: a "-" is unary when it opens the text or follows an operator.     *)
(***************************************************************************)
ParenFree(s) == \A k \in 1..Len(s) : s[k] \notin {"(", ")"}

ClassOf(ts, p) ==
    LET c == ts[p][2][1] IN
    IF c = "^" THEN "pow"
    ELSE IF c \in {"*", "/"} THEN "mul"
    ELSE IF c = "+" THEN "add"
    ELSE IF p = 1 \/ ts[p - 1][1] = "sym" THEN "neg"
    ELSE "add"

RECURSIVE ClassesFrom(_, _)
ClassesFrom(ts, p) ==
    IF p > Len(ts) THEN <<>>
    ELSE IF ts[p][1] = "sym" THEN <<ClassOf(ts, p)>> \o ClassesFrom(ts, p + 1)
    ELSE ClassesFrom(ts, p + 1)

OperatorClasses(s) == ClassesFrom(RefTokens(s), 1)

\* a well-formed text without parentheses in which any two adjacent
\* operators belong to different classes
AdjacentClassesDiffer(s) ==
    /\ WellFormed(s)
    /\ ParenFree(s)
    /\ LET cs == OperatorClasses(s)
       IN  \A k \in 1..(Len(cs) - 1) : cs[k] # cs[k + 1]

\* C2 as stated: the order exponentiation > unary minus > multiplication/
\* division > addition/subtraction decides every pair of adjacent operators
\* of different classes, so a unary minus in front of a^b negates a^b.
C2_PowerAboveUnaryMinus ==
    (Done /\ AdjacentClassesDiffer(expr)) => outcome = RefOutcome(expr, FALSE)

\* C2 as amended: the order is unary minus > exponentiation > multiplication/
\* division > addition/subtraction (the ranks 4 > 3 > 2 > 1 of the operator
\* table); for any two adjacent operators of different classes and no
\* parentheses the operator of the higher class is applied first, so
\* a+b*c = a+(b*c) and a unary minus in front of a^b negates a: (-a)^b.
C2_UnaryMinusAbovePower ==
    (Done /\ AdjacentClassesDiffer(expr)) => outcome = RefOutcome(expr, TRUE)

C2_Witness ==
    /\ Done
    /\ expr = <<"-", "2", "^", "2">>
    /\ AdjacentClassesDiffer(expr)
    /\ outcome = Return(Q(4))

(***************************************************************************)
(* C4.  A ")" without a matching "(" ends the call with the "mismatched    *)
(* parentheses" error, for every text whose only defect is the extra ")":  *)
(* taking one ")" out leaves a well-formed text with a value.              *)
(***************************************************************************)
Without(s, p) == SubSeq(s, 1, p - 1) \o SubSeq(s, p + 1, Len(s))

HasValue(s) == WellFormed(s) /\ ~IsFailed(RefParse(s, TRUE).v)

\* the extra ")" stands where an expression is complete
ExtraRParenOnly(s) ==
    /\ OverClaimAlphabet(s)
    /\ ~WellFormed(s)
    /\ \E p \in 1..Len(s) :
          /\ s[p] = ")"
          /\ HasValue(SubSeq(s, 1, p - 1))
          /\ HasValue(Without(s, p))

MismatchedParentheses == Raise("ValueError", <<MISMATCHED>>, "calculate")

\* C4: in a text whose only defect is an extra ")", the call in which that
\* ")" is the token at hand ends with the "mismatched parentheses" error.
C4_ExtraRParenIsMismatch ==
    (Done /\ ExtraRParenOnly(expr) /\ token # <<>> /\ token[1].token_type = OP_RPAREN)
        => outcome = MismatchedParentheses

(***************************************************************************)
(* C5.  Once every token is consumed, the final drain of a text whose only *)
(* defect is an unclosed "(" (a ")" at its end makes it a well-formed text *)
(* with a value) ends the call with the "mismatched parentheses" error.    *)
(***************************************************************************)
UnclosedLParenOnly(s) ==
    /\ OverClaimAlphabet(s)
    /\ ~WellFormed(s)
    /\ HasValue(s \o <<")">>)

\* C5: in a text whose only defect is an unclosed "(", the step that ends the
\* call from the final drain raises the "mismatched parentheses" error.
C5_UnclosedLParenIsMismatch ==
    [][(pc = "drain" /\ UnclosedLParenOnly(expr) /\ pc' = "done")
          => outcome' = MismatchedParentheses]_vars

(***************************************************************************)
(* C8.  Left associativity: when a left-associative binary operator        *)
(* arrives and the operator on top of the operator stack is a              *)
(* left-associative binary operator of the same precedence, that earlier   *)
(* operator is reduced first, on the two topmost operands with the top as  *)
(* its right operand; so a text a op1 b op2 c with op1, op2 both among     *)
(* + - or both among * / evaluates as (a op1 b) op2 c.                     *)
(***************************************************************************)
LeftBinary == {OP_PLUS, OP_MINUS, OP_TIMES, OP_DIVIDE}

Literals == {<<"2">>, <<"3">>}

\* the texts a op1 b op2 c over the literals and the symbols of syms
Triples(syms) ==
    {a \o <<o1>> \o b \o <<o2>> \o c :
        a \in Literals, b \in Literals, c \in Literals, o1 \in syms, o2 \in syms}

LeftGrouped(s) ==
    Ap(BinaryOf(s[4]), Ap(BinaryOf(s[2]), ParseInt(<<s[1]>>), ParseInt(<<s[3]>>)),
       ParseInt(<<s[5]>>))

RightGrouped(s) ==
    Ap(BinaryOf(s[2]), ParseInt(<<s[1]>>),
       Ap(BinaryOf(s[4]), ParseInt(<<s[3]>>), ParseInt(<<s[5]>>)))

C8_EarlierReducedFirst ==
    (/\ pc = "dispatch"
     /\ token[1].token_type \in LeftBinary
     /\ operator_stack # <<>>
     /\ Top(operator_stack) \in LeftBinary
     /\ Top(operator_stack).precedence = token[1].token_type.precedence
     /\ Len(stack) >= 2)
    => /\ operator_stack' = Pop(operator_stack)
       /\ LET r == Calc(Top(operator_stack), stack[Len(stack) - 1], stack[Len(stack)])
          IN  IF IsFailed(r) THEN pc' = "done" /\ outcome'.kind = "raise"
              ELSE pc' = "dispatch" /\ stack' = Append(Pop(Pop(stack)), r)

\* C8: a op1 b op2 c with op1, op2 of one left-associative class ends as
\* (a op1 b) op2 c, and the earlier operator is reduced before the later one
\* is pushed, the top operand being its right operand.
C8_LeftAssociative ==
    /\ []((Done /\ expr \in Triples({"+", "-"}) \cup Triples({"*", "/"}))
             => outcome = Expected(LeftGrouped(expr)))
    /\ [][C8_EarlierReducedFirst]_vars

C8_Witness ==
    /\ Done
    /\ expr = <<"2", "-", "3", "-", "4">>
    /\ outcome = Return(Q(-5))

(***************************************************************************)
(* C9.  Right associativity: when a "^" arrives and the top of the         *)
(* operator stack is "^", the earlier "^" is not reduced: the new one is   *)
(* pushed on top of it and the operand stack is left alone; so a^b^c       *)
(* evaluates as a^(b^c), and "2^3^2" is 512.                               *)
(***************************************************************************)
C9_EarlierPowerKept ==
    (/\ pc = "dispatch"
     /\ token[1].token_type = OP_EXPONENTIATION
     /\ operator_stack # <<>>
     /\ Top(operator_stack) = OP_EXPONENTIATION)
    => /\ operator_stack' = Append(operator_stack, OP_EXPONENTIATION)
       /\ stack' = stack
       /\ pc' = "next"

\* C9: a^b^c ends as a^(b^c), and a "^" arriving on a "^" is pushed without
\* reducing the earlier one.
C9_RightAssociative ==
    /\ []((Done /\ expr \in Triples({"^"}) \cup {<<"2", "^", "3", "^", "2">>})
             => outcome = Expected(RightGrouped(expr)))
    /\ [][C9_EarlierPowerKept]_vars

C9_Witness ==
    /\ Done
    /\ expr = <<"2", "^", "3", "^", "2">>
    /\ outcome = Return(Q(512))

(***************************************************************************)
(* C10.  Lex errors.                                                       *)
(***************************************************************************)
\* the characters the tokenizer has a branch for
Recognised(c) == IsNumeric(c) \/ c = " " \/ c \in ClaimSymbols

LexError == Done /\ outcome.site = "__next__"

\* C10 as stated: the lex error identifies the offending character and its
\* position in the text.
C10_LexErrorCarriesPosition ==
    LexError =>
        /\ outcome.kind = "raise"
        /\ Len(outcome.args) = 2
        /\ outcome.args[1] = expr[iter_index + 1]

\* C10 as amended: when the tokenizer meets a character that is not numeric
\* (a digit or another character str.isnumeric accepts), a space, an
\* operator symbol or a parenthesis, it fails with a ValueError that carries
\* the offending character and nothing else (no position); the cursor never
\* gets past such a character, and calculate ends with that error and
\* without a value.
C10_LexErrorCarriesCharacter ==
    /\ \A k \in 1..iter_index : Recognised(expr[k])
    /\ LexError =>
        /\ iter_index < Len(expr)
        /\ ~Recognised(expr[iter_index + 1])
        /\ outcome = Raise("ValueError", <<expr[iter_index + 1]>>, "__next__")
    /\ (Done /\ \E k \in 1..Len(expr) : ~Recognised(expr[k])) => outcome.kind = "raise"

C10_Witness ==
    /\ LexError
    /\ expr = <<"1", "+", "a">>
    /\ iter_index = 2
    /\ outcome = Raise("ValueError", <<"a">>, "__next__")

(***************************************************************************)
(* C7.  Whitespace.  The second call evaluates the text of the first with  *)
(* one whitespace character put in: read forwards the pair is an           *)
(* insertion, read backwards a removal.                                    *)
(***************************************************************************)
SecondDone == Done /\ pending = <<>> /\ Len(history) = 1

InsertionPoints(s, t, ws) ==
    {p \in 0..Len(s) : \E w \in ws : t = Insert(s, p, w)}

\* position p of s (0 is the start, Len(s) the end) lies inside a digit run
InsideNumber(s, p) == p >= 1 /\ p < Len(s) /\ IsNumeric(s[p]) /\ IsNumeric(s[p + 1])

Weight == 3 * Len(expr) + 5

Measure ==
    CASE pc = "done" -> 0
      [] pc = "drain" ->
            Weight * (Len(expr) - iter_index) + 1 + Len(operator_stack)
      [] pc = "next" ->
            Weight * (Len(expr) - iter_index) + Len(expr) + 2
      [] pc = "rparen" ->
            Weight * (Len(expr) - iter_index) + Len(expr) + 3 + Len(operator_stack)
      [] pc = "dispatch" ->
            Weight * (Len(expr) - iter_index) + 2 * Len(expr) + 4 + Len(operator_stack)
      [] pc = "start" -> Weight * (Len(expr) + 2)

\* a __next__ call advances the cursor, emits the buffered number, raises or
\* signals the end of the input
C11_NextCallProgresses ==
    pc = "next" =>
        \/ iter_index' > iter_index
        \/ /\ number_str # <<>> /\ number_str' = <<>>
           /\ pc' = "dispatch" /\ token' = <<Token(NUMBER, number_str)>>
        \/ pc' = "done" /\ outcome'.kind = "raise"
        \/ pc' = "drain"

\* a reduction loop (lines 169-176, 192-193, 203-207) that goes round again
\* has taken one operator off the operator stack
C11_ReductionShrinks ==
    (pc \in {"dispatch", "rparen", "drain"} /\ pc' = pc)
        => operator_stack # <<>> /\ operator_stack' = Pop(operator_stack)

\* C11: for every text the call reaches a final state (a returned value or
\* a raised error) after finitely many steps: every step lowers Measure,
\* every __next__ call advances the cursor, emits the buffered number,
\* raises or signals the end of the input, and every turn of a reduction
\* loop shrinks the operator stack.
C11_Terminates ==
    /\ <>(Done /\ outcome.kind \in {"return", "raise"})
    /\ [](Len(operator_stack) <= Len(expr) /\ Measure >= 0)
    /\ [][Measure' < Measure]_vars
    /\ [][C11_NextCallProgresses]_vars
    /\ [][C11_ReductionShrinks]_vars

\* the call on "2+3*4" has ended after two reductions in the final drain
C11_Witness ==
    /\ Done
    /\ expr = <<"2", "+", "3", "*", "4">>
    /\ Len(emitted) = 6
    /\ outcome = Return(Q(14))

(***************************************************************************)
(* C12.  The class of a "-".  The tokens the tokenizer has emitted are     *)
(* read from the log of its __next__ calls, not from its own fields.       *)
(***************************************************************************)
IsTokenEntry(e) == e.how = "token"

TypeOf(e) == e.token[1].token_type

MinusEntries == {k \in 1..Len(emitted) :
                    IsTokenEntry(emitted[k]) /\ emitted[k].token[1].value = <<"-">>}

\* no token was emitted before entry k, or the one just before it is neither
\* a NUMBER nor a ")"
OpensOperand(k) ==
    k = 1 \/ TypeOf(emitted[k - 1]) \notin {NUMBER, OP_RPAREN}

\* C12: a "-" is emitted as unary minus exactly when no token was emitted
\* before it or the token emitted just before it is neither NUMBER nor
\* RPAREN, and as binary minus otherwise, whatever follows it and whatever
\* spaces were skipped; "1-(-2)" is 3 and "3*-2" is -6.
C12_MinusClassifiedByPreviousToken ==
    /\ \A k \in MinusEntries :
          /\ expr[emitted[k].at] = "-"
          /\ TypeOf(emitted[k]) \in {OP_UNARY_MINUS, OP_MINUS}
          /\ TypeOf(emitted[k]) = OP_UNARY_MINUS <=> OpensOperand(k)
    /\ \A k \in 1..Len(emitted) :
          (IsTokenEntry(emitted[k]) /\ TypeOf(emitted[k]) \in {OP_UNARY_MINUS, OP_MINUS})
              => k \in MinusEntries
    /\ (Done /\ expr = <<"1", "-", "(", "-", "2", ")">>) => outcome = Return(Q(3))
    /\ (Done /\ expr = <<"3", "*", "-", "2">>) => outcome = Return(Q(-6))

\* in "3*-2" the "-" after "*" has just been emitted as unary minus
C12_Witness ==
    /\ expr = <<"3", "*", "-", "2">>
    /\ pc = "dispatch"
    /\ Len(emitted) = 3
    /\ 3 \in MinusEntries
    /\ token = <<Token(OP_UNARY_MINUS, <<"-">>)>>
    /\ TypeOf(emitted[2]) = OP_TIMES

(***************************************************************************)
(* C13.  Unary minus.  The texts  -...-x  and  a op -...-x  with k minus   *)
(* signs in front of the literal x, and what they stand for.               *)
(***************************************************************************)
Minuses(k) == [i \in 1..k |-> "-"]

RECURSIVE Negated(_, _)
Negated(k, v) == IF k = 0 THEN v ELSE Ap(OP_UNARY_MINUS, Q(0), Negated(k - 1, v))

\* a unary minus is about to be reduced because another operator arrived
UnaryMinusReducedOnArrival ==
    /\ pc = "dispatch"
    /\ IsOperatorToken(token[1].token_type)
    /\ operator_stack # <<>>
    /\ Top(operator_stack) = OP_UNARY_MINUS
    /\ ShouldReduce(operator_stack, token[1].token_type)

\* C13: k >= 1 unary minus signs in front of an operand x, at the start of
\* the text or after a binary operator, give x negated k times; and a unary
\* minus of a well-formed text is reduced only once the operand that follows
\* it has been read (the token before the arriving operator ends an operand),
\* so it never takes an operand that stands before it.
C13_UnaryMinusNegatesFollowing ==
    /\ \A k \in 1..Len(expr), x \in DecimalDigits :
          /\ (Done /\ expr = Minuses(k) \o <<x>>)
                => outcome = Expected(Negated(k, ParseInt(<<x>>)))
          /\ \A a \in DecimalDigits, op \in BinarySymbols :
                (Done /\ expr = <<a, op>> \o Minuses(k) \o <<x>>)
                    => outcome = Expected(Ap(BinaryOf(op), ParseInt(<<a>>),
                                             Negated(k, ParseInt(<<x>>))))
    /\ (WellFormed(expr) /\ UnaryMinusReducedOnArrival)
          => TypeOf(emitted[Len(emitted) - 1]) \in {NUMBER, OP_RPAREN}

(***************************************************************************)
(* C14.  No result before the end of the input.                            *)
(***************************************************************************)
\* the nesting depth after the text s read from depth d; negative once a
\* ")" has no "(" before it
RECURSIVE ParenDepth(_, _)
ParenDepth(s, d) ==
    IF d < 0 \/ s = <<>> THEN d
    ELSE ParenDepth(Tail(s), d + (IF Head(s) = "(" THEN 1
                                  ELSE IF Head(s) = ")" THEN -1 ELSE 0))

Balanced(s) == ParenDepth(s, 0) = 0

\* the tokenizer has signalled the end of the input, after tokens only
EndOfInputSignalled ==
    /\ emitted # <<>>
    /\ emitted[Len(emitted)].how = "stop"
    /\ \A k \in 1..(Len(emitted) - 1) : IsTokenEntry(emitted[k])

\* C14: no outcome exists while the call runs; a call that returns a value
\* has scanned every character, has been told the end of the input and has
\* processed every token (nothing is buffered, the operator stack is empty);
\* so a character outside digits, space, + - * / ^ ( ) or an unmatched
\* parenthesis anywhere in the text keeps the call from returning a value.
C14_NoResultBeforeEndOfInput ==
    /\ ~Done => outcome = NoOutcome
    /\ (Done /\ outcome.kind = "return") =>
          /\ iter_index = Len(expr)
          /\ number_str = <<>>
          /\ EndOfInputSignalled
          /\ operator_stack = <<>>
    /\ (Done /\ (~OverClaimAlphabet(expr) \/ ~Balanced(expr)))
          => outcome.kind = "raise"

\* " 2-1 + 2 " has returned 3 after the whole text was scanned
C14_Witness ==
    /\ Done
    /\ expr = <<" ", "2", "-", "1", " ", "+", " ", "2", " ">>
    /\ iter_index = 9
    /\ EndOfInputSignalled
    /\ outcome = Return(Q(3))

(***************************************************************************)
(* C15.  The last number of a text.  A NUMBER emitted by the loop of       *)
(* __next__ leaves the cursor on the character that ended the digit run;   *)
(* only the NUMBER emitted at the end of the input leaves it at Len(expr). *)
(***************************************************************************)
FinalNumbers ==
    {k \in 1..Len(emitted) :
        /\ IsTokenEntry(emitted[k])
        /\ TypeOf(emitted[k]) = NUMBER
        /\ emitted[k].at = Len(expr)}

\* the numeric characters the text ends with
RECURSIVE TrailingRun(_)
TrailingRun(s) ==
    IF s = <<>> \/ ~IsNumeric(s[Len(s)]) THEN <<>>
    ELSE Append(TrailingRun(SubSeq(s, 1, Len(s) - 1)), s[Len(s)])

EndSignalled == \E k \in 1..Len(emitted) : emitted[k].how = "stop"

\* C15: when the cursor reaches the end of the input with digits buffered
\* (the text ends with a numeric character), the final NUMBER token, holding
\* those digits, is emitted exactly once, before the end of the input is
\* signalled; every later __next__ call signals the end of the input and
\* neither emits a token nor raises.
C15_FinalNumberOnceThenStop ==
    /\ \A k \in FinalNumbers :
          /\ emitted[k].token[1].value = TrailingRun(expr)
          /\ \A j \in (k + 1)..Len(emitted) : emitted[j].how = "stop"
    /\ Cardinality(FinalNumbers) <= 1
    /\ (EndSignalled /\ TrailingRun(expr) # <<>>) => Cardinality(FinalNumbers) = 1
    /\ (pc = "iterating" /\ FinalNumbers # {})
          => iter_index = Len(expr) /\ number_str = <<>>

\* "12 + 34": the final NUMBER 34 was emitted third, and the two calls made
\* since then signalled the end of the input
C15_Witness ==
    /\ pc = "iterating"
    /\ expr = <<"1", "2", " ", "+", " ", "3", "4">>
    /\ Len(emitted) = 5
    /\ FinalNumbers = {3}
    /\ emitted[3].token = <<Token(NUMBER, <<"3", "4">>)>>
    /\ emitted[4].how = "stop" /\ emitted[5].how = "stop"

(***************************************************************************)
(* C16.  A second pass over the same Tokenizer.  passes[1] is what the     *)
(* first pass gave (it began on a newly built instance), emitted what the  *)
(* second pass has given so far.                                           *)
(***************************************************************************)
SecondPass == pc = "iterating" /\ passes # <<>>

Shorter(a, b) == IF Len(a) <= Len(b) THEN Len(a) ELSE Len(b)

\* call by call, the second pass has given what the first pass gave
Replays ==
    \A k \in 1..Shorter(emitted, passes[1]) : emitted[k] = passes[1][k]

\* C16 as stated: a second pass begun on an instance whose first pass has
\* begun or finished does not replay the tokens from the beginning of the
\* text (some call of it gives something else than the same call of the
\* first pass gave).
C16_NotRestartable ==
    (/\ SecondPass
     /\ passes[1] # <<>> /\ IsTokenEntry(passes[1][1])
     /\ emitted # <<>>)
    => ~Replays

\* C16 as amended: a Tokenizer instance is restartable: __iter__ puts the
\* cursor back at the start of the text and clears the digit buffer and the
\* previous token, so a second pass on the same instance, begun while or
\* after the first pass ran, replays the tokens from the beginning of the
\* text exactly as a new instance does.
C16_SecondPassReplays ==
    /\ SecondPass => Replays
    /\ (SecondPass /\ emitted = <<>>)
          => iter_index = 0 /\ number_str = <<>> /\ prev_token = <<>>

\* "1-(-2)": the first pass was left after three tokens; the second pass
\* has given all six tokens and the end of the input
C16_Witness ==
    /\ SecondPass
    /\ expr = <<"1", "-", "(", "-", "2", ")">>
    /\ Len(passes[1]) = 3 /\ passes[1][3].at = 3
    /\ Len(emitted) = 7
    /\ emitted[1].token = <<Token(NUMBER, <<"1">>)>>
    /\ emitted[4].token = <<Token(OP_UNARY_MINUS, <<"-">>)>>
    /\ emitted[7].how = "stop"
    /\ Replays

(***************************************************************************)
(* C17.  The tokens of a pass cover the text.  The literal of entry k      *)
(* ends at position emitted[k].at of the text.                             *)
(***************************************************************************)
Literal(e) == e.token[1].value

TokenEntries == {k \in 1..Len(emitted) : IsTokenEntry(emitted[k])}

\* the literals of the tokens among the first n entries, joined in order
RECURSIVE Joined(_)
Joined(n) ==
    IF n = 0 THEN <<>>
    ELSE IF IsTokenEntry(emitted[n]) THEN Joined(n - 1) \o Literal(emitted[n])
    ELSE Joined(n - 1)

NoSpace(c) == c # " "

NoSpaces(s) == SelectSeq(s, NoSpace)

\* where the literal of entry k begins in the text
FirstOf(k) == emitted[k].at - Len(Literal(emitted[k])) + 1

IsDigitAt(p) == p >= 1 /\ p <= Len(expr) /\ expr[p] \in DecimalDigits

\* C17: for every text over digits, space, + - * / ^ ( ) no call raises;
\* the literals of the tokens emitted so far, joined in order, are the
\* scanned part of the text without its spaces, and once the end of the
\* input is signalled the whole text without its spaces; every literal is
\* the piece of the text it was scanned from and no two pieces overlap; a
\* NUMBER literal is a maximal run of adjacent digits and every other
\* literal is a single character.
C17_TokensCoverText ==
    (pc = "iterating" /\ OverClaimAlphabet(expr)) =>
        /\ \A k \in 1..Len(emitted) : emitted[k].how # "raise"
        /\ Joined(Len(emitted)) = NoSpaces(SubSeq(expr, 1, iter_index))
        /\ EndSignalled => Joined(Len(emitted)) = NoSpaces(expr)
        /\ \A k \in TokenEntries :
              /\ Literal(emitted[k]) = SubSeq(expr, FirstOf(k), emitted[k].at)
              /\ \A j \in TokenEntries : j < k => emitted[j].at < FirstOf(k)
              /\ IF TypeOf(emitted[k]) = NUMBER
                 THEN /\ Literal(emitted[k]) # <<>>
                      /\ \A p \in FirstOf(k)..emitted[k].at : IsDigitAt(p)
                      /\ ~IsDigitAt(FirstOf(k) - 1)
                      /\ ~IsDigitAt(emitted[k].at + 1)
                 ELSE /\ Len(Literal(emitted[k])) = 1
                      /\ ~IsDigitAt(emitted[k].at)

\* " 2-1 + 2 ": five tokens, then the end of the input
C17_Witness ==
    /\ pc = "iterating"
    /\ expr = <<" ", "2", "-", "1", " ", "+", " ", "2", " ">>
    /\ Len(emitted) = 6
    /\ emitted[6].how = "stop"
    /\ Joined(6) = <<"2", "-", "1", "+", "2">>

(***************************************************************************)
(* C18.  The operand stack against the pending binary operators.           *)
(***************************************************************************)
BinaryOperators == {OP_PLUS, OP_MINUS, OP_TIMES, OP_DIVIDE, OP_EXPONENTIATION}

PendingBinary == Cardinality({k \in 1..Len(operator_stack) :
                                 operator_stack[k] \in BinaryOperators})

\* a token has been processed and the call goes on
TokenProcessed == pc = "next" /\ emitted # <<>>

\* C18: while a well-formed expression is evaluated, after each token is
\* processed (and at every later step of the call, the final drain included)
\* the operand stack holds at most one value more than there are binary
\* operators on the operator stack.
C18_OperandsBoundedByPending ==
    (WellFormed(expr) /\ pc \in {"next", "dispatch", "rparen", "drain"})
        => Len(stack) <= PendingBinary + 1

\* "2+3*4" after its last token: three operands, two pending operators
C18_Witness ==
    /\ TokenProcessed
    /\ WellFormed(expr)
    /\ expr = <<"2", "+", "3", "*", "4">>
    /\ stack = <<Q(2), Q(3), Q(4)>>
    /\ operator_stack = <<OP_PLUS, OP_TIMES>>
    /\ PendingBinary = 2

(***************************************************************************)
(* C19.  What the operator stack holds.  A token is consumed once the body *)
(* of the for loop has run for it; while it runs (pc is "dispatch" or      *)
(* "rparen") the last token emitted is not consumed yet.                   *)
(***************************************************************************)
Consumed ==
    {k \in TokenEntries : pc \in {"dispatch", "rparen"} => k < Len(emitted)}

ConsumedOf(type) == Cardinality({k \in Consumed : TypeOf(emitted[k]) = type})

Markers == {k \in 1..Len(operator_stack) : operator_stack[k] = OP_LPAREN}

ErrorState == Done /\ outcome.kind = "raise"

\* C19: in every state of the call that is not an error state the operator
\* stack holds only arithmetic operators, unary minus and LPAREN markers
\* (never RPAREN or NUMBER), and it holds as many LPAREN markers as "("
\* tokens were consumed less ")" tokens consumed.
C19_OperatorStackContents ==
    ~ErrorState =>
        /\ \A k \in 1..Len(operator_stack) :
              /\ operator_stack[k] \in BinaryOperators \cup {OP_UNARY_MINUS, OP_LPAREN}
              /\ operator_stack[k] \notin {OP_RPAREN, NUMBER}
        /\ Cardinality(Markers) = ConsumedOf(OP_LPAREN) - ConsumedOf(OP_RPAREN)

\* "(1+(4+5+2)-3)+(6+8)" after its first ")": two "(" and one ")" consumed,
\* one marker left under the pending "+"
C19_Witness ==
    /\ pc = "next"
    /\ Len(expr) = 19 /\ expr[1] = "("
    /\ iter_index = 10
    /\ ConsumedOf(OP_LPAREN) = 2 /\ ConsumedOf(OP_RPAREN) = 1
    /\ operator_stack = <<OP_LPAREN, OP_PLUS>>

(***************************************************************************)
(* C20.  The order of the operator stack.  Two operators are adjacent when *)
(* no LPAREN marker stands between them, so they lie in one segment.       *)
(***************************************************************************)
AdjacentOperators ==
    {k \in 1..(Len(operator_stack) - 1) :
        operator_stack[k] # OP_LPAREN /\ operator_stack[k + 1] # OP_LPAREN}

\* C20: in every state of the call that is not an error state, within each
\* segment of the operator stack between LPAREN markers (or the bottom)
\* precedences do not decrease from bottom to top, and two adjacent
\* operators have the same precedence only when both are "^".
C20_SegmentsOrderedByPrecedence ==
    ~ErrorState =>
        \A k \in AdjacentOperators :
            /\ operator_stack[k].precedence <= operator_stack[k + 1].precedence
            /\ operator_stack[k].precedence = operator_stack[k + 1].precedence
                  => /\ operator_stack[k] = OP_EXPONENTIATION
                     /\ operator_stack[k + 1] = OP_EXPONENTIATION

\* "1+2*3^2-4" with "^" pushed: precedences 1, 2, 3 from bottom to top
C20_Witness ==
    /\ pc = "next"
    /\ expr = <<"1", "+", "2", "*", "3", "^", "2", "-", "4">>
    /\ operator_stack = <<OP_PLUS, OP_TIMES, OP_EXPONENTIATION>>
    /\ AdjacentOperators = {1, 2}

====
